---- MODULE Spec2Model ----
(***************************************************************************)
(* Model of the geometry engine of dioxus-floating (src/src/floating.rs):  *)
(* Floating::calculate_placement = compute_base_coords followed by         *)
(* apply_middleware (Flip, then Shift).                                    *)
(*                                                                         *)
(* Numbers.  The code computes in f64 pixels.  The model counts in half    *)
(* pixels: a length of n pixels is the integer Px(n) = 2n, so that the     *)
(* only division of the code, "/ 2_f64" on a width or a height, is exact   *)
(* (Half).  Every input is a whole number of pixels; on such inputs f64    *)
(* addition, subtraction and halving are exact, too.                       *)
(***************************************************************************)
EXTENDS Integers, Sequences, FiniteSets

(***************************************************************************)
(* Bounds of the model (pixels).                                           *)
(***************************************************************************)
\* trigger origins are 0..MaxCoord on each axis
MaxCoord == 2
\* offsets are -MaxOffset..MaxOffset
MaxOffset == 1
\* paddings are 0..MaxPadding
MaxPadding == 2
\* middleware lists have at most MaxMiddleware entries
MaxMiddleware == 2
\* a hook's signals are written at most MaxChanges times
MaxChanges == 2
\* a hook's effect spawns at most MaxTasks tasks
MaxTasks == 2

Px(n) == 2 * n
Half(v) == v \div 2

(***************************************************************************)
(* PixelsRect: origin and size; max = min + size (euclid::Rect).           *)
(***************************************************************************)
Rect(ox, oy, w, h) == [min_x |-> Px(ox), min_y |-> Px(oy), width |-> Px(w), height |-> Px(h)]
min_x(r) == r.min_x
min_y(r) == r.min_y
max_x(r) == r.min_x + r.width
max_y(r) == r.min_y + r.height
width(r) == r.width
height(r) == r.height

(***************************************************************************)
(* Placement and its predicates.                                           *)
(***************************************************************************)
Placement ==
    { "TopStart", "TopCenter", "TopEnd",
      "BottomStart", "BottomCenter", "BottomEnd",
      "LeftStart", "LeftCenter", "LeftEnd",
      "RightStart", "RightCenter", "RightEnd" }

is_vertical(p) ==
    p \in { "TopStart", "TopCenter", "TopEnd", "BottomStart", "BottomCenter", "BottomEnd" }

is_top(p) == p \in { "TopEnd", "TopCenter", "TopStart" }

is_left(p) == p \in { "LeftCenter", "LeftEnd", "LeftStart" }

\* get_modifier with one arm of the match wrong
get_modifier_slip(p) ==
    CASE p \in { "BottomCenter", "LeftCenter", "RightCenter", "TopCenter" } -> "Center"
      [] p \in { "BottomEnd", "RightEnd", "TopEnd" } -> "End"
      [] p \in { "BottomStart", "LeftStart", "RightStart", "TopStart", "LeftEnd" } -> "Start"

get_modifier(p) ==
    CASE p = "BottomCenter" -> "Center"
      [] p = "LeftCenter" -> "Center"
      [] p = "RightCenter" -> "Center"
      [] p = "TopCenter" -> "Center"
      [] p = "BottomEnd" -> "End"
      [] p = "LeftEnd" -> "End"
      [] p = "RightEnd" -> "End"
      [] p = "TopEnd" -> "End"
      [] p = "BottomStart" -> "Start"
      [] p = "LeftStart" -> "Start"
      [] p = "RightStart" -> "Start"
      [] p = "TopStart" -> "Start"

(***************************************************************************)
(* Middleware and FloatingOptions.  options.middleware is a Vec: a list,   *)
(* with order and repetitions.                                             *)
(***************************************************************************)
Middleware == { "Flip", "Shift" }

contains(list, m) == \E i \in DOMAIN list : list[i] = m

\* can_flip looking for the wrong middleware
can_flip_copy_paste(options) == contains(options.middleware, "Shift")

\* can_flip looking at the head of the list only
can_flip_first_only(options) ==
    Len(options.middleware) > 0 /\ options.middleware[1] = "Flip"

can_flip(options) == contains(options.middleware, "Flip")

can_shift(options) == contains(options.middleware, "Shift")

DefaultOptions ==
    [ middleware |-> << "Flip", "Shift" >>,
      offset |-> Px(1),
      padding |-> Px(0),
      placement |-> "BottomStart" ]

(***************************************************************************)
(* compute_base_coords: the position before any correction.                *)
(***************************************************************************)
compute_base_coords(element, trigger, options) ==
    IF is_vertical(options.placement)
    THEN LET x == CASE get_modifier(options.placement) = "Center" ->
                        min_x(trigger) + Half(width(trigger)) - Half(width(element))
                    [] get_modifier(options.placement) = "Start" -> min_x(trigger)
                    [] get_modifier(options.placement) = "End" ->
                        max_x(trigger) - width(element)
             y == IF is_top(options.placement)
                  THEN min_y(trigger) - height(element) - options.offset
                  ELSE max_y(trigger) + options.offset
         IN  << x, y >>
    ELSE LET x == IF is_left(options.placement)
                  THEN min_x(trigger) - width(element) - options.offset
                  ELSE max_x(trigger) + options.offset
             y == CASE get_modifier(options.placement) = "Center" ->
                        min_y(trigger) + Half(height(trigger)) - Half(height(element))
                    [] get_modifier(options.placement) = "Start" -> min_y(trigger)
                    [] get_modifier(options.placement) = "End" ->
                        max_y(trigger) - height(element)
         IN  << x, y >>

\* the flip middleware with the far-edge tests forgetting the element's size
flip_middleware_no_size(pos, scrollable, element, trigger, options) ==
    LET x == pos[1]
        y == pos[2]
    IN  IF can_flip(options)
        THEN IF is_vertical(options.placement)
             THEN IF is_top(options.placement) /\ y < min_y(scrollable)
                  THEN << x, max_y(trigger) + options.offset >>
                  ELSE IF ~is_top(options.placement) /\ y > max_y(scrollable)
                       THEN << x, min_y(trigger) - height(element) - options.offset >>
                       ELSE << x, y >>
             ELSE IF is_left(options.placement) /\ x < min_x(scrollable)
                  THEN << max_x(trigger) + options.offset, y >>
                  ELSE IF ~is_left(options.placement) /\ x > max_x(scrollable)
                       THEN << min_x(trigger) - width(element) - options.offset, y >>
                       ELSE << x, y >>
        ELSE << x, y >>

\* the flip middleware re-anchoring a Top placement at the trigger's upper edge
flip_middleware_min_edge(pos, scrollable, element, trigger, options) ==
    LET x == pos[1]
        y == pos[2]
    IN  IF can_flip(options)
        THEN IF is_vertical(options.placement)
             THEN IF is_top(options.placement) /\ y < min_y(scrollable)
                  THEN << x, min_y(trigger) + options.offset >>
                  ELSE IF ~is_top(options.placement)
                          /\ y + height(element) > max_y(scrollable)
                       THEN << x, min_y(trigger) - height(element) - options.offset >>
                       ELSE << x, y >>
             ELSE IF is_left(options.placement) /\ x < min_x(scrollable)
                  THEN << max_x(trigger) + options.offset, y >>
                  ELSE IF ~is_left(options.placement)
                          /\ x + width(element) > max_x(scrollable)
                       THEN << min_x(trigger) - width(element) - options.offset, y >>
                       ELSE << x, y >>
        ELSE << x, y >>

\* the flip middleware testing the flipped position again and falling back to the
\* scrollable's edge when it overflows the opposite side
flip_middleware_recheck(pos, scrollable, element, trigger, options) ==
    LET x == pos[1]
        y == pos[2]
        below == max_y(trigger) + options.offset
        above == min_y(trigger) - height(element) - options.offset
        right == max_x(trigger) + options.offset
        left == min_x(trigger) - width(element) - options.offset
    IN  IF can_flip(options)
        THEN IF is_vertical(options.placement)
             THEN IF is_top(options.placement) /\ y < min_y(scrollable)
                  THEN IF below + height(element) > max_y(scrollable)
                       THEN << x, min_y(scrollable) >>
                       ELSE << x, below >>
                  ELSE IF ~is_top(options.placement)
                          /\ y + height(element) > max_y(scrollable)
                       THEN IF above < min_y(scrollable)
                            THEN << x, max_y(scrollable) - height(element) >>
                            ELSE << x, above >>
                       ELSE << x, y >>
             ELSE IF is_left(options.placement) /\ x < min_x(scrollable)
                  THEN IF right + width(element) > max_x(scrollable)
                       THEN << min_x(scrollable), y >>
                       ELSE << right, y >>
                  ELSE IF ~is_left(options.placement)
                          /\ x + width(element) > max_x(scrollable)
                       THEN IF left < min_x(scrollable)
                            THEN << max_x(scrollable) - width(element), y >>
                            ELSE << left, y >>
                       ELSE << x, y >>
        ELSE << x, y >>

(***************************************************************************)
(* apply_middleware, first half: the flip middleware.                      *)
(***************************************************************************)
flip_middleware(pos, scrollable, element, trigger, options) ==
    LET x == pos[1]
        y == pos[2]
    IN  IF can_flip(options)
        THEN IF is_vertical(options.placement)
             THEN IF is_top(options.placement) /\ y < min_y(scrollable)
                  THEN << x, max_y(trigger) + options.offset >>
                  ELSE IF ~is_top(options.placement)
                          /\ y + height(element) > max_y(scrollable)
                       THEN << x, min_y(trigger) - height(element) - options.offset >>
                       ELSE << x, y >>
             ELSE IF is_left(options.placement) /\ x < min_x(scrollable)
                  THEN << max_x(trigger) + options.offset, y >>
                  ELSE IF ~is_left(options.placement)
                          /\ x + width(element) > max_x(scrollable)
                       THEN << min_x(trigger) - width(element) - options.offset, y >>
                       ELSE << x, y >>
        ELSE << x, y >>

(***************************************************************************)
(* f64::clamp(self, min, max) panics unless min <= max; otherwise it is    *)
(* the value limited to [min, max].                                        *)
(***************************************************************************)
clamp_panics(lo, hi) == ~(lo <= hi)

clamp(v, lo, hi) == IF v < lo THEN lo ELSE IF v > hi THEN hi ELSE v

\* the fit into the scrollable with the far edge taken for the element's origin
fit_scrollable_no_size(v, size, lo, hi) ==
    LET v1 == IF v < lo THEN lo ELSE v
    IN  IF v1 + size > hi THEN hi ELSE v1

\* the fit into the scrollable with the test of the far edge forgotten
fit_scrollable_near_only(v, size, lo, hi) == IF v < lo THEN lo ELSE v

\* the two "if" statements that try to fit the element into the scrollable
fit_scrollable(v, size, lo, hi) ==
    LET v1 == IF v < lo THEN lo ELSE v
    IN  IF v1 + size > hi THEN hi - size ELSE v1

min_allowed_x(element, trigger, options) == min_x(trigger) - width(element) + options.padding
max_allowed_x(trigger, options) == max_x(trigger) - options.padding
min_allowed_y(element, trigger, options) == min_y(trigger) - height(element) + options.padding
max_allowed_y(trigger, options) == max_y(trigger) - options.padding

(***************************************************************************)
(* apply_middleware, second half: the shift middleware.  shift_panics is   *)
(* the case in which the clamp call aborts the thread.                     *)
(***************************************************************************)
shift_panics(element, trigger, options) ==
    /\ can_shift(options)
    /\ IF is_vertical(options.placement)
       THEN clamp_panics(min_allowed_x(element, trigger, options),
                         max_allowed_x(trigger, options))
       ELSE clamp_panics(min_allowed_y(element, trigger, options),
                         max_allowed_y(trigger, options))

\* the shift middleware with the two clamps in the other order
shift_middleware_span_first(pos, scrollable, element, trigger, options) ==
    LET x == pos[1]
        y == pos[2]
    IN  IF can_shift(options)
        THEN IF is_vertical(options.placement)
             THEN << fit_scrollable(clamp(x, min_allowed_x(element, trigger, options),
                                          max_allowed_x(trigger, options)),
                                    width(element), min_x(scrollable), max_x(scrollable)),
                     y >>
             ELSE << x,
                     fit_scrollable(clamp(y, min_allowed_y(element, trigger, options),
                                          max_allowed_y(trigger, options)),
                                    height(element), min_y(scrollable), max_y(scrollable)) >>
        ELSE << x, y >>

\* the shift middleware fitting the element into the scrollable on both axes
shift_middleware_both_axes(pos, scrollable, element, trigger, options) ==
    LET x == pos[1]
        y == pos[2]
        fx == fit_scrollable(x, width(element), min_x(scrollable), max_x(scrollable))
        fy == fit_scrollable(y, height(element), min_y(scrollable), max_y(scrollable))
    IN  IF can_shift(options)
        THEN IF is_vertical(options.placement)
             THEN << clamp(fx, min_allowed_x(element, trigger, options),
                           max_allowed_x(trigger, options)),
                     fy >>
             ELSE << fx,
                     clamp(fy, min_allowed_y(element, trigger, options),
                           max_allowed_y(trigger, options)) >>
        ELSE << x, y >>

shift_middleware(pos, scrollable, element, trigger, options) ==
    LET x == pos[1]
        y == pos[2]
    IN  IF can_shift(options)
        THEN IF is_vertical(options.placement)
             THEN << clamp(fit_scrollable(x, width(element),
                                          min_x(scrollable), max_x(scrollable)),
                           min_allowed_x(element, trigger, options),
                           max_allowed_x(trigger, options)),
                     y >>
             ELSE << x,
                     clamp(fit_scrollable(y, height(element),
                                          min_y(scrollable), max_y(scrollable)),
                           min_allowed_y(element, trigger, options),
                           max_allowed_y(trigger, options)) >>
        ELSE << x, y >>

(***************************************************************************)
(* apply_middleware: flip, then shift.  calculate_placement: the base      *)
(* position, corrected by apply_middleware.  The outcome of a call is the  *)
(* pair returned, or the panic of the clamp call.                          *)
(***************************************************************************)
apply_middleware(initial_pos, scrollable, element, trigger, options) ==
    shift_middleware(flip_middleware(initial_pos, scrollable, element, trigger, options),
                     scrollable, element, trigger, options)

NoPos == << >>

calculate_placement(scrollable, element, trigger, options) ==
    IF shift_panics(element, trigger, options)
    THEN [ status |-> "panicked", pos |-> NoPos ]
    ELSE [ status |-> "returned",
           pos |-> apply_middleware(compute_base_coords(element, trigger, options),
                                    scrollable, element, trigger, options) ]

(***************************************************************************)
(* The inputs of a call of calculate_placement.                            *)
(***************************************************************************)
Coords == 0 .. MaxCoord
Offsets == { Px(n) : n \in (0 - MaxOffset) .. MaxOffset }
Paddings == { Px(n) : n \in 0 .. MaxPadding }
MiddlewareLists == UNION { [1 .. n -> Middleware] : n \in 0 .. MaxMiddleware }

\* the scrollable container: 3 x 2 pixels, at the origin or moved along one axis
Scrollables == { Rect(0, 0, 3, 2), Rect(1, 0, 3, 2), Rect(0, 1, 3, 2) }
\* the trigger: a point (1 x 1) or a 2 x 1 pixel box
Triggers == { Rect(ox, oy, w, 1) : ox \in Coords, oy \in Coords, w \in 1 .. 2 }
\* the floating element, as measured: the engine reads its size only
Elements == { Rect(1, 2, 1, 1), Rect(0, 1, 2, 1), Rect(2, 0, 1, 2), Rect(1, 1, 4, 3) }

Options ==
    [ middleware : MiddlewareLists,
      offset : Offsets,
      padding : Paddings,
      placement : Placement ]

(***************************************************************************)
(* The measurement adapter.  A measurement of a mounted element            *)
(* (get_client_rect, get_scroll_size, get_scroll_offset) is a Result: Ok   *)
(* with the value measured, or Err.                                        *)
(***************************************************************************)
Ok(v) == [ ok |-> TRUE, value |-> v ]
Err == [ ok |-> FALSE ]
is_ok(res) == res.ok

\* PixelsSize::new(w, h) and PixelsVector2D::new(x, y), in model units
Size(w, h) == << w, h >>
Vector(x, y) == << x, y >>
\* PixelsRect::new(origin, size)
RectNew(origin, size) ==
    [ min_x |-> origin[1], min_y |-> origin[2], width |-> size[1], height |-> size[2] ]

\* generate_scroll_state_from_mounted with one failure zeroing the whole state
scroll_state_all_or_nothing(rect, scroll, offset) ==
    IF is_ok(rect) /\ is_ok(scroll) /\ is_ok(offset)
    THEN [ size |-> Size(scroll.value[1], scroll.value[2]),
           bounds |-> Size(width(rect.value), height(rect.value)),
           state |-> Vector(offset.value[1], offset.value[2]) ]
    ELSE [ size |-> Size(0, 0), bounds |-> Size(0, 0), state |-> Vector(0, 0) ]

\* generate_scroll_state_from_mounted: the ScrollState of the three measurements
scroll_state_from_mounted(rect, scroll, offset) ==
    [ size |-> IF is_ok(scroll)
               THEN Size(scroll.value[1], scroll.value[2])
               ELSE Size(0, 0),
      bounds |-> IF is_ok(rect)
                 THEN Size(width(rect.value), height(rect.value))
                 ELSE Size(0, 0),
      state |-> IF is_ok(offset)
                THEN Vector(offset.value[1], offset.value[2])
                ELSE Vector(0, 0) ]

\* the container's rectangle with the fallback taken although the measurement succeeded
scrollable_rect_of_bounds_only(res, scroll_state) ==
    RectNew(Vector(0, 0), scroll_state.bounds)

\* scrollable_ref.get_client_rect().await.unwrap_or(PixelsRect::new((0, 0), bounds))
scrollable_rect_of(res, scroll_state) ==
    IF is_ok(res) THEN res.value ELSE RectNew(Vector(0, 0), scroll_state.bounds)

\* placement_on_point: the 1 x 1 trigger rectangle at the point
trigger_rect_of_point(point) == RectNew(Vector(point[1], point[2]), Size(Px(1), Px(1)))

\* placement_on_trigger: trigger_ref.get_client_rect().await.unwrap_or(1 x 1 at (0, 0))
trigger_rect_of(res) ==
    IF is_ok(res) THEN res.value ELSE RectNew(Vector(0, 0), Size(Px(1), Px(1)))

\* the last match with the corrections applied to the fallback position, too
placement_of_element_always_corrected(res, scrollable_rect, trigger_rect, options) ==
    IF is_ok(res)
    THEN calculate_placement(scrollable_rect, res.value, trigger_rect, options)
    ELSE calculate_placement(scrollable_rect, RectNew(Vector(0, 0), Size(0, 0)),
                             trigger_rect, options)

\* match element_ref.get_client_rect().await { Ok => calculate_placement, Err => top-left }
placement_of_element(res, scrollable_rect, trigger_rect, options) ==
    IF is_ok(res)
    THEN calculate_placement(scrollable_rect, res.value, trigger_rect, options)
    ELSE [ status |-> "returned", pos |-> << min_x(trigger_rect), min_y(trigger_rect) >> ]

VARIABLES
    scrollable,     \* argument of calculate_placement
    element,        \* argument of calculate_placement
    trigger,        \* argument of calculate_placement
    options,        \* argument of calculate_placement
    pc,             \* position of the call: "call", "base", "flip", "returned", "panicked"
    base_pos,       \* calculate_placement's base_pos / apply_middleware's initial_pos
    pos             \* apply_middleware's (x, y)

VARIABLES
    call            \* a call of the measurement adapter: its arguments, its position
                    \* and what it has measured so far

VARIABLES
    sig,            \* the signals a hook reads: scroll_state, scrollable_ref (of the
                    \* ScrollableContext), element_ref, trigger (trigger_ref or trigger_point)
    hook,           \* the hook: which one, its context, its options, its effect
    tasks,          \* the tasks the effect has spawned, in the order of their spawn
    result          \* the hook's result signal: FloatingResult

hook_vars == << sig, hook, tasks, result >>

\* the variables the geometry engine does not touch
other_vars == << call, sig, hook, tasks, result >>

vars ==
    << scrollable, element, trigger, options, pc, base_pos, pos, call,
       sig, hook, tasks, result >>

\* Option::None
None == [ some |-> FALSE ]
\* Option::Some
Some(v) == [ some |-> TRUE, value |-> v ]

\* FloatingResult::default()
DefaultResult == [ x |-> 0, y |-> 0, is_ready |-> FALSE ]

\* no hook in use
HookIdle ==
    /\ sig = None
    /\ hook = None
    /\ tasks = << >>
    /\ result = DefaultResult

\* no call of the measurement adapter
NoCall == [ fn |-> "none" ]

\* the end-to-end scenario of the specification, in pixels
ScenarioScrollable == Rect(0, 0, 500, 500)
ScenarioTrigger == Rect(450, 20, 40, 20)
ScenarioElement == Rect(0, 0, 100, 50)

Init ==
    /\ \/ /\ scrollable \in Scrollables
          /\ element \in Elements
          /\ trigger \in Triggers
          /\ options \in Options
       \/ /\ scrollable = ScenarioScrollable
          /\ element = ScenarioElement
          /\ trigger = ScenarioTrigger
          /\ options = DefaultOptions
    /\ pc = "call"
    /\ base_pos = NoPos
    /\ pos = NoPos
    /\ call = NoCall
    /\ HookIdle

\* calculate_placement: let base_pos = self.compute_base_coords(...)
ComputeBase ==
    /\ pc = "call"
    /\ base_pos' = compute_base_coords(element, trigger, options)
    /\ pos' = base_pos'
    /\ pc' = "base"
    /\ UNCHANGED << scrollable, element, trigger, options >>
    /\ UNCHANGED other_vars

\* apply_middleware: the flip middleware
FlipStep ==
    /\ pc = "base"
    /\ pos' = flip_middleware(pos, scrollable, element, trigger, options)
    /\ pc' = "flip"
    /\ UNCHANGED << scrollable, element, trigger, options, base_pos >>
    /\ UNCHANGED other_vars

\* apply_middleware: the shift middleware, and the return of (x, y)
ShiftStep ==
    /\ pc = "flip"
    /\ IF shift_panics(element, trigger, options)
       THEN /\ pc' = "panicked"
            /\ pos' = pos
       ELSE /\ pc' = "returned"
            /\ pos' = shift_middleware(pos, scrollable, element, trigger, options)
    /\ UNCHANGED << scrollable, element, trigger, options, base_pos >>
    /\ UNCHANGED other_vars

Next == ComputeBase \/ FlipStep \/ ShiftStep

Spec == Init /\ [][Next]_vars

(***************************************************************************)
(* One call of the measurement adapter: placement_on_point,                *)
(* placement_on_trigger or generate_scroll_state_from_mounted.  Each await *)
(* of a measurement is a step; what the rendering surface answers is       *)
(* chosen by the step.                                                     *)
(***************************************************************************)
\* a measurement that has not been awaited yet
Pending == [ ok |-> FALSE, pending |-> TRUE ]

\* what the measurements can answer
ContainerResults == { Ok(r) : r \in Scrollables } \cup { Err }
AdapterTriggers == { Rect(MaxCoord, 1, 2, 1), Rect(1, 0, 1, 1) }
TriggerResults == { Ok(r) : r \in AdapterTriggers } \cup { Err }
ElementResults == { Ok(r) : r \in Elements } \cup { Err }
ScrollSizeResults == { Ok(Size(Px(4), Px(5))), Ok(Size(Px(3), Px(2))), Err }
ScrollOffsetResults == { Ok(Vector(0, Px(1))), Ok(Vector(Px(2), 0)), Err }

\* the arguments of a call
ScrollStates ==
    [ size : { Size(Px(4), Px(5)) },
      bounds : { Size(Px(3), Px(2)), Size(Px(1), Px(2)) },
      state : { Vector(0, Px(1)) } ]
Points == { Vector(Px(x), Px(y)) : x \in Coords, y \in Coords }

PlacementCall(fn, scroll_state, point, opts) ==
    [ fn |-> fn,
      stage |-> "start",
      scroll_state |-> scroll_state,
      point |-> point,
      options |-> opts,
      container |-> Pending,
      trigger_res |-> Pending,
      element_res |-> Pending,
      scrollable_rect |-> NoPos,
      trigger_rect |-> NoPos,
      outcome |-> NoPos ]

MountedCall ==
    [ fn |-> "generate_scroll_state_from_mounted",
      stage |-> "start",
      rect |-> Pending,
      scroll |-> Pending,
      offset |-> Pending,
      state |-> NoPos ]

GeometryIdle ==
    /\ scrollable = NoPos
    /\ element = NoPos
    /\ trigger = NoPos
    /\ options = NoPos
    /\ pc = "idle"
    /\ base_pos = NoPos
    /\ pos = NoPos

AdapterInit ==
    /\ GeometryIdle
    /\ HookIdle
    /\ \/ \E ss \in ScrollStates, pt \in Points, o \in Options :
              call = PlacementCall("placement_on_point", ss, pt, o)
       \/ \E ss \in ScrollStates, o \in Options :
              call = PlacementCall("placement_on_trigger", ss, NoPos, o)
       \/ call = MountedCall

geometry_vars == << scrollable, element, trigger, options, pc, base_pos, pos >>

\* placement_on_point, placement_on_trigger: scrollable_ref.get_client_rect().await;
\* placement_on_point then builds the trigger rectangle from the point
MeasureContainer ==
    /\ call.fn \in { "placement_on_point", "placement_on_trigger" }
    /\ call.stage = "start"
    /\ \E res \in ContainerResults :
           call' = [ call EXCEPT
                       !.container = res,
                       !.scrollable_rect = scrollable_rect_of(res, call.scroll_state),
                       !.trigger_rect = IF call.fn = "placement_on_point"
                                        THEN trigger_rect_of_point(call.point)
                                        ELSE @,
                       !.stage = IF call.fn = "placement_on_point"
                                 THEN "trigger"
                                 ELSE "container" ]
    /\ UNCHANGED << geometry_vars, hook_vars >>

\* placement_on_trigger: trigger_ref.get_client_rect().await
MeasureTrigger ==
    /\ call.fn = "placement_on_trigger"
    /\ call.stage = "container"
    /\ \E res \in TriggerResults :
           call' = [ call EXCEPT
                       !.trigger_res = res,
                       !.trigger_rect = trigger_rect_of(res),
                       !.stage = "trigger" ]
    /\ UNCHANGED << geometry_vars, hook_vars >>

\* both: element_ref.get_client_rect().await and the match on its result
MeasureElement ==
    /\ call.fn \in { "placement_on_point", "placement_on_trigger" }
    /\ call.stage = "trigger"
    /\ \E res \in ElementResults :
           call' = [ call EXCEPT
                       !.element_res = res,
                       !.outcome = placement_of_element(res, call.scrollable_rect,
                                                        call.trigger_rect, call.options),
                       !.stage = "done" ]
    /\ UNCHANGED << geometry_vars, hook_vars >>

\* generate_scroll_state_from_mounted: data.get_client_rect().await
GetClientRect ==
    /\ call.fn = "generate_scroll_state_from_mounted"
    /\ call.stage = "start"
    /\ \E res \in ContainerResults :
           call' = [ call EXCEPT !.rect = res, !.stage = "rect" ]
    /\ UNCHANGED << geometry_vars, hook_vars >>

\* generate_scroll_state_from_mounted: data.get_scroll_size().await
GetScrollSize ==
    /\ call.fn = "generate_scroll_state_from_mounted"
    /\ call.stage = "rect"
    /\ \E res \in ScrollSizeResults :
           call' = [ call EXCEPT !.scroll = res, !.stage = "scroll" ]
    /\ UNCHANGED << geometry_vars, hook_vars >>

\* generate_scroll_state_from_mounted: data.get_scroll_offset().await, and the
\* ScrollState built from the three results
GetScrollOffset ==
    /\ call.fn = "generate_scroll_state_from_mounted"
    /\ call.stage = "scroll"
    /\ \E res \in ScrollOffsetResults :
           call' = [ call EXCEPT
                       !.offset = res,
                       !.state = scroll_state_from_mounted(call.rect, call.scroll, res),
                       !.stage = "done" ]
    /\ UNCHANGED << geometry_vars, hook_vars >>

AdapterNext ==
    \/ MeasureContainer
    \/ MeasureTrigger
    \/ MeasureElement
    \/ GetClientRect
    \/ GetScrollSize
    \/ GetScrollOffset

SpecAdapter == AdapterInit /\ [][AdapterNext]_vars

(***************************************************************************)
(* The hooks use_placement and use_placement_on_point (src/src/lib.rs).    *)
(* A hook creates its result signal, looks for the ScrollableContext and,  *)
(* when there is one, registers an effect.  The effect reads the four      *)
(* signals, so it runs once after the hook is created and again after a    *)
(* write to any of them.  When all four hold a value it spawns a task:     *)
(* a timer of 1 ms, the call of placement_on_trigger or placement_on_point *)
(* with the values read, and the write of the result.  A task is never     *)
(* cancelled.  Every await of a task is a step; tasks interleave at their  *)
(* awaits.  Timers of one delay fire in the order they were set.           *)
(***************************************************************************)
HookKinds == { "use_placement", "use_placement_on_point" }

\* the options of the hooks in the model: padding 0, for which the clamp of the
\* shift middleware has ordered bounds whatever is measured
HookOptions == { DefaultOptions, [ DefaultOptions EXCEPT !.placement = "TopCenter" ] }

\* the values the signals take
TriggerHandles == { "t1", "t2" }
HookPoints == { Vector(0, 0), Vector(Px(MaxCoord), Px(1)) }
TriggerValues(kind) == IF kind = "use_placement" THEN TriggerHandles ELSE HookPoints
Options_(S) == { None } \cup { Some(v) : v \in S }

\* what the rendering surface answers to the measurements of a task
HookContainerResults == { Ok(Rect(0, 0, 3, 2)), Err }
HookElementResults == { Ok(Rect(1, 2, 1, 1)), Err }
HookTriggerResults(handle) ==
    IF handle = "t1"
    THEN { Ok(Rect(1, 0, 1, 1)), Err }
    ELSE { Ok(Rect(MaxCoord, 1, 2, 1)), Err }

\* an effect registered although no ScrollableContext was found
effect_registered_always(h) == TRUE

\* try_use_context::<ScrollableContext>(): None returns before use_effect
effect_registered(h) == h.has_context

\* the else branch of the effect: if result.peek().is_ready { result.set(default) }
reset_result(res) == IF res.is_ready THEN DefaultResult ELSE res

\* scroll_state.zip(scrollable_ref).zip(element_ref).zip(trigger)
zip(s) ==
    IF s.scroll_state.some /\ s.scrollable_ref.some /\ s.element_ref.some /\ s.trigger.some
    THEN Some([ scroll_state |-> s.scroll_state.value,
                scrollable |-> s.scrollable_ref.value,
                element |-> s.element_ref.value,
                trigger |-> s.trigger.value ])
    ELSE None

\* spawn(async move { ... }) with the values the effect has read
NewTask(inputs) ==
    [ stage |-> "timer",
      inputs |-> inputs,
      scrollable_rect |-> NoPos,
      trigger_rect |-> NoPos,
      outcome |-> NoPos ]

HookInit ==
    /\ GeometryIdle
    /\ call = NoCall
    /\ \E kind \in HookKinds, ctx \in BOOLEAN, o \in HookOptions :
           /\ hook = [ kind |-> kind, has_context |-> ctx, options |-> o,
                       dirty |-> effect_registered([ has_context |-> ctx ]),
                       changes |-> 0 ]
           /\ sig \in [ scroll_state : Options_(ScrollStates),
                        scrollable_ref : Options_({ "scrollable" }),
                        element_ref : Options_({ "element" }),
                        trigger : Options_(TriggerValues(kind)) ]
    /\ tasks = << >>
    /\ result = DefaultResult

\* a write to a signal marks the effect that reads it
Written(name, v) ==
    /\ hook.changes < MaxChanges
    /\ sig' = [ sig EXCEPT ![name] = v ]
    /\ hook' = [ hook EXCEPT !.changes = @ + 1,
                             !.dirty = IF effect_registered(hook) THEN TRUE ELSE @ ]
    /\ UNCHANGED << geometry_vars, call, tasks, result >>

\* ScrollableView: scroll_state.set(Some(state)) on mount, scroll and resize
SetScrollState == \E v \in ScrollStates : Written("scroll_state", Some(v))

\* ScrollableView: scrollable_ref.set(Some(evt.data.clone())) on mount
SetScrollableRef == Written("scrollable_ref", Some("scrollable"))

\* the component: the element is mounted or removed
SetElementRef == \E v \in Options_({ "element" }) : Written("element_ref", v)

\* the component: the trigger is mounted, replaced or removed; the point is set or cleared
SetTrigger == \E v \in Options_(TriggerValues(hook.kind)) : Written("trigger", v)

\* use_effect(move || { ... })
RunEffect ==
    /\ hook.dirty
    /\ LET z == zip(sig)
       IN  IF z.some
           THEN /\ Len(tasks) < MaxTasks
                /\ tasks' = Append(tasks, NewTask(z.value))
                /\ result' = result
           ELSE /\ tasks' = tasks
                /\ result' = reset_result(result)
    /\ hook' = [ hook EXCEPT !.dirty = FALSE ]
    /\ UNCHANGED << geometry_vars, call, sig >>

\* gloo_timers::future::TimeoutFuture::new(1).await
TimerFires(i) ==
    /\ tasks[i].stage = "timer"
    /\ \A j \in 1 .. (i - 1) : tasks[j].stage # "timer"
    /\ tasks' = [ tasks EXCEPT ![i].stage = "start" ]
    /\ UNCHANGED << geometry_vars, call, sig, hook, result >>

\* the task's call: scrollable_ref.get_client_rect().await
TaskMeasureContainer(i) ==
    /\ tasks[i].stage = "start"
    /\ \E res \in HookContainerResults :
           tasks' = [ tasks EXCEPT
                        ![i].scrollable_rect =
                            scrollable_rect_of(res, tasks[i].inputs.scroll_state),
                        ![i].trigger_rect =
                            IF hook.kind = "use_placement_on_point"
                            THEN trigger_rect_of_point(tasks[i].inputs.trigger)
                            ELSE @,
                        ![i].stage =
                            IF hook.kind = "use_placement_on_point"
                            THEN "trigger"
                            ELSE "container" ]
    /\ UNCHANGED << geometry_vars, call, sig, hook, result >>

\* the task's call: trigger_ref.get_client_rect().await
TaskMeasureTrigger(i) ==
    /\ tasks[i].stage = "container"
    /\ \E res \in HookTriggerResults(tasks[i].inputs.trigger) :
           tasks' = [ tasks EXCEPT ![i].trigger_rect = trigger_rect_of(res),
                                   ![i].stage = "trigger" ]
    /\ UNCHANGED << geometry_vars, call, sig, hook, result >>

\* the task's call: element_ref.get_client_rect().await, the position, and
\* result.set(FloatingResult { x, y, is_ready: true })
TaskMeasureElement(i) ==
    /\ tasks[i].stage = "trigger"
    /\ \E res \in HookElementResults :
           LET out == placement_of_element(res, tasks[i].scrollable_rect,
                                           tasks[i].trigger_rect, hook.options)
           IN  /\ tasks' = [ tasks EXCEPT ![i].outcome = out.pos, ![i].stage = "done" ]
               /\ result' = [ x |-> out.pos[1], y |-> out.pos[2], is_ready |-> TRUE ]
    /\ UNCHANGED << geometry_vars, call, sig, hook >>

HookNext ==
    \/ SetScrollState
    \/ SetScrollableRef
    \/ SetElementRef
    \/ SetTrigger
    \/ RunEffect
    \/ \E i \in 1 .. Len(tasks) : TimerFires(i)
    \/ \E i \in 1 .. Len(tasks) : TaskMeasureContainer(i)
    \/ \E i \in 1 .. Len(tasks) : TaskMeasureTrigger(i)
    \/ \E i \in 1 .. Len(tasks) : TaskMeasureElement(i)

SpecHook == HookInit /\ [][HookNext]_vars

(***************************************************************************)
(* Vocabulary of the properties: a placement is a side and an alignment;   *)
(* the primary axis is y for Top/Bottom and x for Left/Right, the          *)
(* transverse axis is the other one.                                       *)
(***************************************************************************)
Sides == { "Top", "Bottom", "Left", "Right" }
Alignments == { "Start", "Center", "End" }
SideOf(p) == CHOOSE s \in Sides : \E a \in Alignments : p = s \o a
AlignOf(p) == CHOOSE a \in Alignments : \E s \in Sides : p = s \o a
OnVerticalSide(p) == SideOf(p) \in { "Top", "Bottom" }
Primary(p, v) == IF OnVerticalSide(p) THEN v[2] ELSE v[1]
Transverse(p, v) == IF OnVerticalSide(p) THEN v[1] ELSE v[2]
FlipListed == \E i \in 1 .. Len(options.middleware) : options.middleware[i] = "Flip"
ShiftListed == \E i \in 1 .. Len(options.middleware) : options.middleware[i] = "Shift"

\* the rectangles' edges, from the four numbers of a rectangle
MinX(r) == r.min_x
MinY(r) == r.min_y
MaxX(r) == r.min_x + r.width
MaxY(r) == r.min_y + r.height

\* the anchors on the primary axis: at the side itself, and at the opposite side
AnchorAt(side) ==
    CASE side = "Top" -> MinY(trigger) - element.height - options.offset
      [] side = "Bottom" -> MaxY(trigger) + options.offset
      [] side = "Left" -> MinX(trigger) - element.width - options.offset
      [] side = "Right" -> MaxX(trigger) + options.offset
Opposite(side) ==
    CASE side = "Top" -> "Bottom"
      [] side = "Bottom" -> "Top"
      [] side = "Left" -> "Right"
      [] side = "Right" -> "Left"
\* the base position overflows the scrollable on the preferred side
OverflowsPreferred(side, base) ==
    CASE side = "Top" -> base[2] < MinY(scrollable)
      [] side = "Bottom" -> base[2] + element.height > MaxY(scrollable)
      [] side = "Left" -> base[1] < MinX(scrollable)
      [] side = "Right" -> base[1] + element.width > MaxX(scrollable)
\* the alignment of a box of size esize with a span [tmin, tmin + tsize]
Aligned(align, tmin, tsize, esize) ==
    CASE align = "Start" -> tmin
      [] align = "Center" -> tmin + Half(tsize) - Half(esize)
      [] align = "End" -> tmin + tsize - esize
\* the interval the shift middleware keeps the transverse coordinate in
SpanLow(p) ==
    IF OnVerticalSide(p)
    THEN MinX(trigger) - element.width + options.padding
    ELSE MinY(trigger) - element.height + options.padding
SpanHigh(p) ==
    IF OnVerticalSide(p)
    THEN MaxX(trigger) - options.padding
    ELSE MaxY(trigger) - options.padding

(***************************************************************************)
(* C1: for each of the 12 placements, every element and trigger rectangle  *)
(* and every offset, compute_base_coords returns the reference base        *)
(* position: the side's anchor on the primary axis, the alignment's        *)
(* position on the transverse axis.                                        *)
(***************************************************************************)
C1_BaseReference ==
    pc # "call" =>
        /\ \E side \in Sides, align \in Alignments : options.placement = side \o align
        /\ \A side \in Sides, align \in Alignments :
               options.placement = side \o align =>
                   base_pos =
                       IF side \in { "Top", "Bottom" }
                       THEN << Aligned(align, MinX(trigger), trigger.width, element.width),
                               AnchorAt(side) >>
                       ELSE << AnchorAt(side),
                               Aligned(align, MinY(trigger), trigger.height, element.height) >>

\* a centred placement whose base position lies on a half pixel, with an offset
C1_Witness ==
    /\ pc = "base"
    /\ options.placement = "LeftCenter"
    /\ options.offset < 0
    /\ base_pos[2] % 2 = 1

(***************************************************************************)
(* C2: with Flip enabled, after the Flip step the primary-axis coordinate  *)
(* is the opposite side's anchor when the base position overflows the      *)
(* scrollable on the preferred side, and the base one in every other case  *)
(* (all four sides).                                                       *)
(***************************************************************************)
C2_FlipReference ==
    (pc = "flip" /\ FlipListed) =>
        LET side == SideOf(options.placement)
        IN  Primary(options.placement, pos) =
                IF OverflowsPreferred(side, base_pos)
                THEN AnchorAt(Opposite(side))
                ELSE Primary(options.placement, base_pos)

\* a Right placement that the Flip step moved to the left of the trigger
C2_Witness ==
    /\ pc = "flip"
    /\ FlipListed
    /\ SideOf(options.placement) = "Right"
    /\ pos[1] # base_pos[1]
    /\ pos[1] = MinX(trigger) - element.width - options.offset

C4_Total == pc # "panicked"

(***************************************************************************)
(* C5: when Flip is not in options.middleware, the primary-axis coordinate *)
(* returned is the one of the base position, with or without Shift, also   *)
(* when the element extends past the scrollable.                           *)
(***************************************************************************)
C5_NoFlipKeepsPrimary ==
    (pc = "returned" /\ ~FlipListed) =>
        Primary(options.placement, pos) = Primary(options.placement, base_pos)

\* Shift alone, and the element overflows the scrollable on the preferred side
C5_Witness ==
    /\ pc = "returned"
    /\ ~FlipListed
    /\ ShiftListed
    /\ OverflowsPreferred(SideOf(options.placement), base_pos)
    /\ pos # base_pos

(***************************************************************************)
(* C6, as stated: with Flip enabled and a Top placement, whenever the base *)
(* position overflows above the scrollable, the y returned is at or below  *)
(* the trigger's lower edge: y >= trigger.maxY.                            *)
(***************************************************************************)
C6_FlippedBelowTrigger ==
    ( /\ pc = "returned"
      /\ FlipListed
      /\ SideOf(options.placement) = "Top"
      /\ base_pos[2] < MinY(scrollable) ) =>
        pos[2] >= MaxY(trigger)

(***************************************************************************)
(* C6, amended: with Flip enabled, a Top placement and an offset that is   *)
(* not negative, whenever the base position overflows above the            *)
(* scrollable, the y returned satisfies y >= trigger.maxY.                 *)
(***************************************************************************)
C6_FlippedBelowTriggerNonNegativeOffset ==
    ( /\ pc = "returned"
      /\ FlipListed
      /\ SideOf(options.placement) = "Top"
      /\ options.offset >= 0
      /\ base_pos[2] < MinY(scrollable) ) =>
        pos[2] >= MaxY(trigger)

\* a Top placement with offset 0 that overflowed above and was returned below
C6_Witness ==
    /\ pc = "returned"
    /\ FlipListed
    /\ SideOf(options.placement) = "Top"
    /\ options.offset = 0
    /\ base_pos[2] < MinY(scrollable)
    /\ pos[2] = MaxY(trigger)

(***************************************************************************)
(* C7: Flip is single-shot: with Flip enabled the primary-axis coordinate  *)
(* returned is the preferred side's anchor or the opposite side's anchor,  *)
(* and it is the opposite side's anchor whenever the base position         *)
(* overflows the preferred side, also when the flipped position overflows  *)
(* the opposite edge of the scrollable.                                    *)
(***************************************************************************)
C7_FlipSingleShot ==
    (pc = "returned" /\ FlipListed) =>
        LET side == SideOf(options.placement)
            primary == Primary(options.placement, pos)
        IN  /\ primary \in { AnchorAt(side), AnchorAt(Opposite(side)) }
            /\ OverflowsPreferred(side, base_pos) => primary = AnchorAt(Opposite(side))
            /\ ~OverflowsPreferred(side, base_pos) => primary = AnchorAt(side)

\* the base position overflows one edge, the flipped position the opposite edge
C7_Witness ==
    /\ pc = "returned"
    /\ FlipListed
    /\ OverflowsPreferred(SideOf(options.placement), base_pos)
    /\ OverflowsPreferred(Opposite(SideOf(options.placement)), pos)
    /\ Primary(options.placement, pos) # Primary(options.placement, base_pos)

(***************************************************************************)
(* C8: Flip and Shift act on disjoint axes: the Flip step keeps the        *)
(* transverse-axis coordinate, the Shift step keeps the primary-axis       *)
(* coordinate (so the primary coordinate returned is the one Flip          *)
(* produced), and without Shift the transverse coordinate returned is the  *)
(* base one.                                                               *)
(***************************************************************************)
C8_DisjointAxes ==
    [][ /\ (pc = "base" /\ pc' = "flip") =>
               Transverse(options.placement, pos') = Transverse(options.placement, pos)
        /\ (pc = "flip" /\ pc' = "returned") =>
               Primary(options.placement, pos') = Primary(options.placement, pos)
        /\ (pc' = "returned" /\ ~ShiftListed) =>
               Transverse(options.placement, pos') = Transverse(options.placement, base_pos')
      ]_vars

\* Flip moved the position on the primary axis and Shift on the transverse axis
C8_Witness ==
    /\ pc = "returned"
    /\ FlipListed
    /\ ShiftListed
    /\ Primary(options.placement, pos) # Primary(options.placement, base_pos)
    /\ Transverse(options.placement, pos) # Transverse(options.placement, base_pos)

(***************************************************************************)
(* C9: the middleware list behaves as a set of flags: the outcome of a     *)
(* call is the outcome of the call with the list replaced by the list of   *)
(* the middleware that occur in it, each once and Flip first; so neither   *)
(* order nor multiplicity matters, and Flip is applied before Shift.       *)
(***************************************************************************)
CanonicalMiddleware ==
    (IF FlipListed THEN << "Flip" >> ELSE << >>)
        \o (IF ShiftListed THEN << "Shift" >> ELSE << >>)

C9_MiddlewareIsFlags ==
    pc \in { "returned", "panicked" } =>
        [ status |-> pc, pos |-> IF pc = "returned" THEN pos ELSE NoPos ]
            = calculate_placement(scrollable, element, trigger,
                                  [ options EXCEPT !.middleware = CanonicalMiddleware ])

\* Shift listed before Flip, and both corrections changed the position
C9_Witness ==
    /\ pc = "returned"
    /\ options.middleware = << "Shift", "Flip" >>
    /\ pos[1] # base_pos[1]
    /\ pos[2] # base_pos[2]

(***************************************************************************)
(* C10: the end-to-end scenario (scrollable 500 x 500 at the origin,       *)
(* trigger 40 x 20 at (450, 20), element 100 x 50, BottomStart, offset 1,  *)
(* padding 0, Flip and Shift): the base position is (450, 41), Flip does   *)
(* not move it, and the position returned is (400, 41).                    *)
(***************************************************************************)
InScenario ==
    /\ scrollable = ScenarioScrollable
    /\ element = ScenarioElement
    /\ trigger = ScenarioTrigger
    /\ options = DefaultOptions

C10_EndToEnd ==
    InScenario =>
        /\ pc # "panicked"
        /\ pc # "call" => base_pos = << Px(450), Px(41) >>
        /\ pc = "flip" => pos = base_pos
        /\ pc = "returned" => pos = << Px(400), Px(41) >>

C10_Witness == InScenario /\ pc = "returned"

(***************************************************************************)
(* C15: with Shift enabled, whenever the viewport interval                 *)
(* [scrollable.min, scrollable.max - element.size] of the transverse axis  *)
(* is not empty and meets the trigger span                                 *)
(* [trigger.min - element.size + padding, trigger.max - padding], the      *)
(* transverse coordinate returned lies in both intervals: the element is   *)
(* inside the scrollable on the transverse axis.                           *)
(***************************************************************************)
ViewLow(p) == IF OnVerticalSide(p) THEN MinX(scrollable) ELSE MinY(scrollable)
ViewHigh(p) ==
    IF OnVerticalSide(p)
    THEN MaxX(scrollable) - element.width
    ELSE MaxY(scrollable) - element.height
IntervalsMeet(p) ==
    /\ ViewLow(p) <= ViewHigh(p)
    /\ SpanLow(p) <= SpanHigh(p)
    /\ ViewLow(p) <= SpanHigh(p)
    /\ SpanLow(p) <= ViewHigh(p)

PlacementDone ==
    /\ call.fn \in { "placement_on_point", "placement_on_trigger" }
    /\ call.stage = "done"
\* the trigger rectangle a call has to build: 1 x 1 at the point, the rectangle
\* measured, or 1 x 1 at (0, 0) when the trigger could not be measured
TriggerRectExpected ==
    IF call.fn = "placement_on_point"
    THEN [ min_x |-> call.point[1], min_y |-> call.point[2],
           width |-> Px(1), height |-> Px(1) ]
    ELSE IF call.trigger_res.ok
         THEN call.trigger_res.value
         ELSE [ min_x |-> 0, min_y |-> 0, width |-> Px(1), height |-> Px(1) ]
\* the scrollable rectangle: the one measured, or scroll_state.bounds at (0, 0)
ScrollableRectExpected ==
    IF call.container.ok
    THEN call.container.value
    ELSE [ min_x |-> 0, min_y |-> 0,
           width |-> call.scroll_state.bounds[1],
           height |-> call.scroll_state.bounds[2] ]

(***************************************************************************)
(* C11: in placement_on_point and placement_on_trigger a failed            *)
(* measurement of the floating element ends the call without an error:     *)
(* the call returns the top-left corner of the trigger rectangle it built  *)
(* (the point; the measured trigger's corner; (0, 0) when the trigger      *)
(* measurement failed, too), uncorrected, whatever the options and the     *)
(* scrollable are.                                                         *)
(***************************************************************************)
C11_ElementFailureReturnsTriggerCorner ==
    (PlacementDone /\ ~call.element_res.ok) =>
        /\ call.outcome.status = "returned"
        /\ call.outcome.pos =
               IF call.fn = "placement_on_point"
               THEN call.point
               ELSE IF call.trigger_res.ok
                    THEN << call.trigger_res.value.min_x, call.trigger_res.value.min_y >>
                    ELSE << 0, 0 >>

\* the trigger was measured away from the origin and outside the scrollable's
\* fallback, Flip and Shift are enabled, and the element could not be measured
C11_Witness ==
    /\ PlacementDone
    /\ call.fn = "placement_on_trigger"
    /\ ~call.element_res.ok
    /\ ~call.container.ok
    /\ call.trigger_res.ok
    /\ call.options.middleware = << "Flip", "Shift" >>
    /\ call.options.placement = "TopEnd"
    /\ call.outcome.pos = << Px(MaxCoord), Px(1) >>

(***************************************************************************)
(* C12: a failed container or trigger measurement does not end the call:   *)
(* when the element is measured, the outcome is calculate_placement on the *)
(* measured rectangles, with the scrollable replaced by scroll_state.bounds*)
(* at (0, 0) when the container measurement failed and the trigger by a    *)
(* 1 x 1 rectangle at (0, 0) when the trigger measurement failed; a        *)
(* measured container rectangle is used as it is, whatever the bounds.     *)
(***************************************************************************)
C12_MeasurementDefaults ==
    (PlacementDone /\ call.element_res.ok) =>
        call.outcome = calculate_placement(ScrollableRectExpected, call.element_res.value,
                                           TriggerRectExpected, call.options)

\* container and trigger measurement failed, the element was measured, and the
\* position returned was corrected against the fallback scrollable
C12_Witness ==
    /\ PlacementDone
    /\ call.fn = "placement_on_trigger"
    /\ ~call.container.ok
    /\ ~call.trigger_res.ok
    /\ call.element_res.ok
    /\ call.outcome.status = "returned"
    /\ call.outcome.pos # compute_base_coords(call.element_res.value, TriggerRectExpected,
                                              call.options)

(***************************************************************************)
(* C13: generate_scroll_state_from_mounted never fails and degrades field  *)
(* by field: bounds is the measured rectangle's size, size the measured    *)
(* scroll size and state the measured scroll offset for each measurement   *)
(* that succeeded, and zero for exactly the fields whose measurement       *)
(* failed.                                                                 *)
(***************************************************************************)
MountedDone ==
    /\ call.fn = "generate_scroll_state_from_mounted"
    /\ call.stage = "done"

C13_ScrollStatePerField ==
    MountedDone =>
        /\ call.rect.ok =>
               call.state.bounds = << call.rect.value.width, call.rect.value.height >>
        /\ ~call.rect.ok => call.state.bounds = << 0, 0 >>
        /\ call.scroll.ok => call.state.size = call.scroll.value
        /\ ~call.scroll.ok => call.state.size = << 0, 0 >>
        /\ call.offset.ok => call.state.state = call.offset.value
        /\ ~call.offset.ok => call.state.state = << 0, 0 >>

\* one measurement failed, the two others are in the state returned
C13_Witness ==
    /\ MountedDone
    /\ ~call.scroll.ok
    /\ call.rect.ok
    /\ call.offset.ok
    /\ call.state.size = << 0, 0 >>
    /\ call.state.bounds # << 0, 0 >>
    /\ call.state.state # << 0, 0 >>

(***************************************************************************)
(* Vocabulary of the hooks' properties.                                    *)
(***************************************************************************)
AllInputsPresent ==
    /\ sig.scroll_state.some
    /\ sig.scrollable_ref.some
    /\ sig.element_ref.some
    /\ sig.trigger.some
NoTaskInFlight == \A i \in 1 .. Len(tasks) : tasks[i].stage = "done"
InputsChanged ==
    /\ Len(tasks) >= 2
    /\ tasks[Len(tasks) - 1].inputs # tasks[Len(tasks)].inputs

(***************************************************************************)
(* C14: a hook used without a ScrollableContext never starts a positioning *)
(* task, and its result stays x = 0, y = 0, is_ready = false whatever is   *)
(* written to the element, trigger or point inputs afterwards.             *)
(***************************************************************************)
C14_NoContextNoTask ==
    ~hook.has_context =>
        /\ tasks = << >>
        /\ result = [ x |-> 0, y |-> 0, is_ready |-> FALSE ]

\* no context, every input present, and the inputs were written MaxChanges times
C14_Witness ==
    /\ ~hook.has_context
    /\ AllInputsPresent
    /\ hook.changes = MaxChanges

(***************************************************************************)
(* C16: when the inputs change while a task is in flight and a newer task  *)
(* is spawned, the stale result is discarded: once both tasks have         *)
(* completed, in whatever order, the result (if it was not reset since)    *)
(* is the position the newest task computed.                               *)
(***************************************************************************)
C16_NewestTaskWins ==
    (InputsChanged /\ NoTaskInFlight /\ result.is_ready) =>
        << result.x, result.y >> = tasks[Len(tasks)].outcome

(***************************************************************************)
(* C17: is_ready is false at first and, whenever an input is absent, the   *)
(* effect has run for the inputs as they are and no task is in flight,     *)
(* the result is the zeroed placeholder with is_ready = false.             *)
(***************************************************************************)
C17_AbsentInputNotReady ==
    /\ (tasks = << >> /\ hook.changes = 0) => ~result.is_ready
    /\ (~AllInputsPresent /\ ~hook.dirty /\ NoTaskInFlight) =>
           result = [ x |-> 0, y |-> 0, is_ready |-> FALSE ]

====
